---- MODULE Spec2Model ----
(***************************************************************************)
(* The asynchronous job engine of src/server.js: the job registry          *)
(* (processingJobs), the submission, status, list and download handlers,   *)
(* the orchestrator processFilesAsync with its tree walk, and the          *)
(* quality-search converter convertToWebP.                                 *)
(*                                                                         *)
(* Node runs one callback at a time.  `running` holds the task whose      *)
(* synchronous block is executing; every handler, timer and resumption     *)
(* needs running = NoTask.  A task gives the event loop back only at the   *)
(* codec call (sharp, line 338) and at the 50 ms pause (line 659), and     *)
(* when processFilesAsync ends.                                            *)
(***************************************************************************)
EXTENDS Integers, Sequences, FiniteSets, TLC

\* ---------------------------------------------------------------- bounds
MaxJobs == 2      \* submissions in one run
MaxClock == 2     \* Date.now() takes the values 1..MaxClock
MaxTimers == 2    \* pending cleanup timers per job id

Tasks == 1..MaxJobs
JobIds == 1..MaxClock
NoTask == {}

\* ------------------------------------------------------- program constants
maxSize == 2 * 1024 * 1024
StartQuality == 90
QualityStep == 10
MinQuality == 10
PauseEvery == 5

\* ------------------------------------------------------------- the codec
\* sharp(buffer).webp({quality}).toBuffer(): the byte length of the output
\* for an image at a quality level, or CodecError when sharp rejects the
\* input.  The images are the inputs of the model.
CodecError == 0 - 1
Images == {"small", "exact", "mid", "last", "huge", "bad"}

\* small fits at every level, exact is at the ceiling to the byte at every
\* level, mid fits from 40 down, last fits at 10 only and to the byte,
\* huge fits at no level, bad is not an image sharp can read.
Encode(img, quality) ==
    CASE img = "small" -> 1024 * 1024
      [] img = "exact" -> maxSize
      [] img = "mid"   -> quality * 50000
      [] img = "last"  -> maxSize + (quality - MinQuality)
      [] img = "huge"  -> 3 * 1024 * 1024 + quality
      [] OTHER         -> CodecError

MsgCompress == "Could not compress image under 2MB"
MsgCodec == "Input buffer contains unsupported image format"

\* Variant of convertToWebP: the floor test lets level 0 through.
RECURSIVE convertToWebPToZero(_, _)
convertToWebPToZero(img, quality) ==
    IF quality < 0
    THEN [ok |-> FALSE, msg |-> MsgCompress, len |-> 0, quality |-> quality,
          tried |-> << >>]
    ELSE LET len == Encode(img, quality)
         IN  IF len = CodecError
             THEN [ok |-> FALSE, msg |-> MsgCodec, len |-> 0, quality |-> quality,
                   tried |-> <<quality>>]
             ELSE IF len > maxSize
                  THEN [convertToWebPToZero(img, quality - QualityStep)
                            EXCEPT !.tried = <<quality>> \o @]
                  ELSE [ok |-> TRUE, msg |-> "", len |-> len, quality |-> quality,
                        tried |-> <<quality>>]
\* Variant of convertToWebP: at the last level the buffer is returned
\* whatever its size.
RECURSIVE convertToWebPBestEffort(_, _)
convertToWebPBestEffort(img, quality) ==
    LET len == Encode(img, quality)
    IN  IF len = CodecError
        THEN [ok |-> FALSE, msg |-> MsgCodec, len |-> 0, quality |-> quality,
              tried |-> <<quality>>]
        ELSE IF len > maxSize /\ quality - QualityStep >= MinQuality
             THEN [convertToWebPBestEffort(img, quality - QualityStep)
                       EXCEPT !.tried = <<quality>> \o @]
             ELSE [ok |-> TRUE, msg |-> "", len |-> len, quality |-> quality,
                   tried |-> <<quality>>]
\* convertToWebP(buffer, quality) (lines 333-347).  The result is the
\* buffer returned (ok, len, the level it was encoded at) or the error
\* thrown (msg); tried lists the levels handed to sharp, in order.
RECURSIVE convertToWebP(_, _)
convertToWebP(img, quality) ==
    IF quality < MinQuality
    THEN [ok |-> FALSE, msg |-> MsgCompress, len |-> 0, quality |-> quality,
          tried |-> << >>]
    ELSE LET len == Encode(img, quality)
         IN  IF len = CodecError
             THEN [ok |-> FALSE, msg |-> MsgCodec, len |-> 0, quality |-> quality,
                   tried |-> <<quality>>]
             ELSE IF len > maxSize
                  THEN [convertToWebP(img, quality - QualityStep)
                            EXCEPT !.tried = <<quality>> \o @]
                  ELSE [ok |-> TRUE, msg |-> "", len |-> len, quality |-> quality,
                        tried |-> <<quality>>]

\* ----------------------------------------------------------- the archives
\* A directory tree is the sequence of its entries, each with the path of
\* the directory that holds it (<< >> is the root).  readdirSync lists the
\* entries of one directory in the order they have in the sequence.
Dir(dir, base) ==
    [isDir |-> TRUE, dir |-> dir, base |-> base, ext |-> "", img |-> "none"]
File(dir, base, ext, img) ==
    [isDir |-> FALSE, dir |-> dir, base |-> base, ext |-> ext, img |-> img]

SamePath(e, f) == e.dir = f.dir /\ e.base = f.base /\ e.ext = f.ext
Child(e) == Append(e.dir, e.base)

toLowerCase(ext) == IF ext = "PNG" THEN "png" ELSE ext

ArchCorrupt == [corrupt |-> TRUE, tree |-> << >>]
ArchMixed ==
    [corrupt |-> FALSE,
     tree |-> << File(<< >>, "a", "png", "mid"),
                 File(<< >>, "notes", "txt", "none"),
                 Dir(<< >>, "sub"),
                 File(<<"sub">>, "b", "PNG", "bad"),
                 File(<<"sub">>, "c", "png", "huge") >>]
ArchNoPng ==
    [corrupt |-> FALSE, tree |-> << File(<< >>, "readme", "txt", "none") >>]
ArchFive ==
    [corrupt |-> FALSE,
     tree |-> << File(<< >>, "p1", "png", "small"),
                 File(<< >>, "p2", "png", "exact"),
                 File(<< >>, "p3", "png", "last"),
                 File(<< >>, "p4", "png", "mid"),
                 File(<< >>, "p5", "png", "small") >>]
\* A PNG next to a file that has the name its conversion is written to.
ArchClash ==
    [corrupt |-> FALSE,
     tree |-> << File(<< >>, "a", "png", "small"),
                 File(<< >>, "a", "webp", "none") >>]
Archives == {ArchCorrupt, ArchMixed, ArchNoPng, ArchFive, ArchClash}

InTree(tree, e) == \E i \in 1..Len(tree) : SamePath(tree[i], e)
Lookup(tree, e) == tree[CHOOSE i \in 1..Len(tree) : SamePath(tree[i], e)]

\* zip.extractAllTo(extractDir, true): the entries of the archive are
\* written into the directory, replacing entries that have the same path.
RECURSIVE Without(_, _)
Without(tree, other) ==
    IF tree = << >> THEN << >>
    ELSE IF InTree(other, Head(tree)) THEN Without(Tail(tree), other)
         ELSE <<Head(tree)>> \o Without(Tail(tree), other)
extractAllTo(extracted, tree) == Without(extracted, tree) \o tree

\* fs.readdirSync(dir) over the extracted tree.
RECURSIVE readdirSync(_, _)
readdirSync(tree, dir) ==
    IF tree = << >> THEN << >>
    ELSE IF Head(tree).dir = dir
         THEN <<Head(tree)>> \o readdirSync(Tail(tree), dir)
         ELSE readdirSync(Tail(tree), dir)

\* Variant of countPngs: every entry of the directory is counted.
countEntries(tree, dir) == Len(readdirSync(tree, dir))
\* countPngs(dir): a directory is descended into, any other entry whose
\* lower-cased extension is png is counted.
RECURSIVE countPngs(_, _)
RECURSIVE countItems(_, _)
countItems(tree, items) ==
    IF items = << >> THEN 0
    ELSE (IF Head(items).isDir THEN countPngs(tree, Child(Head(items)))
          ELSE IF toLowerCase(Head(items).ext) = "png" THEN 1 ELSE 0)
         + countItems(tree, Tail(items))
countPngs(tree, dir) == countItems(tree, readdirSync(tree, dir))

\* ------------------------------------------------------------ the records
NoJob == [status |-> "absent"]

MsgZip == "Invalid or unsupported zip format"
MsgFs == "EIO"
MsgNoEnt == "ENOENT"

ExtractingRec(id) ==
    [status |-> "extracting", progress |-> 0, tempDir |-> id, outputPath |-> id]
ConvertingRec(id) ==
    [status |-> "converting", progress |-> 10, tempDir |-> id, outputPath |-> id]
Min(a, b) == IF a < b THEN a ELSE b
\* Variant of Progress: the share of the files still to convert.
ProgressOfRemaining(processedPngs, totalPngs) ==
    IF totalPngs = 0 THEN 90
    ELSE Min(90, 10 + (((totalPngs - processedPngs) * 70) \div totalPngs))
\* Variant of Progress: the plain percentage of the files converted.
ProgressPercent(processedPngs, totalPngs) ==
    IF totalPngs = 0 THEN 100 ELSE (processedPngs * 100) \div totalPngs
\* Math.min(90, 10 + Math.floor((processedPngs / totalPngs) * 70)); a
\* division by zero is Infinity in JavaScript and the minimum is then 90.
\* The floating-point value equals the integer quotient for every total
\* below 70 (the first difference is 47 of 70).
Progress(processedPngs, totalPngs) ==
    IF totalPngs = 0 THEN 90
    ELSE Min(90, 10 + ((processedPngs * 70) \div totalPngs))
FileRec(id, processedPngs, totalPngs) ==
    [status |-> "converting", progress |-> Progress(processedPngs, totalPngs),
     processedFiles |-> processedPngs, totalFiles |-> totalPngs,
     tempDir |-> id, outputPath |-> id]
\* Variant of ZippingRec: the status of the previous stage is kept.
ZippingRecAsConverting(id) ==
    [status |-> "converting", progress |-> 90, tempDir |-> id, outputPath |-> id]
ZippingRec(id) ==
    [status |-> "zipping", progress |-> 90, tempDir |-> id, outputPath |-> id]
CompletedRec(id, processedPngs, totalPngs) ==
    [status |-> "completed", progress |-> 100,
     processedFiles |-> processedPngs, totalFiles |-> totalPngs,
     tempDir |-> id, outputPath |-> id, downloadUrl |-> id]
\* Variant of FailedRec: a fixed text in place of error.message.
FailedRecFixedText(id, msg) ==
    [status |-> "failed", error |-> "Processing failed", tempDir |-> id]
FailedRec(id, msg) ==
    [status |-> "failed", error |-> msg, tempDir |-> id]

\* The temp directory of a job id: temp/<id> with output/ and converted.zip.
\* extracted: the entries under extracted/; outDirs, out: the directories
\* and files under output/; zipped, zip: converted.zip and its entries.
NoDisk ==
    [exists |-> FALSE, extracted |-> << >>, outDirs |-> {}, out |-> {},
     zipped |-> FALSE, zip |-> {}]
OutFile(dir, base, ext, kind, len) ==
    [dir |-> dir, base |-> base, ext |-> ext, kind |-> kind, len |-> len]
\* fs.mkdirSync(path, {recursive: true}) under output/: the directory and
\* every directory above it, output/ and temp/<id> included.
Parents(path) == {SubSeq(path, 1, n) : n \in 0..Len(path)}
\* Writing a file replaces the file that has the same path.
WriteOut(out, f) == {g \in out : ~SamePath(g, f)} \cup {f}

VARIABLES
    clock,           \* Date.now()
    submitted,       \* number of submissions accepted so far
    task,            \* task[t]: the t-th call of processFilesAsync
    running,         \* {t} while a synchronous block of task t executes
    processingJobs,  \* the registry, job id -> record
    disk,            \* job id -> the temp directory temp/<id>
    timers,          \* job id -> pending cleanup timers of downloads
    rmCalls,         \* job id -> calls of fs.rmSync on temp/<id>
    removed,         \* job id -> calls of them that removed temp/<id>
    cleaned,         \* job id -> a cleanup timer of a download has run
    resp             \* the response sent by the step just taken, if any

vars == <<clock, submitted, task, running, processingJobs, disk, timers, rmCalls,
          removed, cleaned, resp>>

NoResp == [op |-> "none"]
IdleTask ==
    [pc |-> "idle", jobId |-> 0, arch |-> ArchCorrupt,
     items |-> << >>, buf |-> "none",
     totalPngs |-> 0, processedPngs |-> 0, failedPngs |-> 0,
     error |-> "", pub |-> NoJob]

Init ==
    /\ clock = 1
    /\ submitted = 0
    /\ task = [t \in Tasks |-> IdleTask]
    /\ running = NoTask
    /\ processingJobs = [id \in JobIds |-> NoJob]
    /\ disk = [id \in JobIds |-> NoDisk]
    /\ timers = [id \in JobIds |-> 0]
    /\ rmCalls = [id \in JobIds |-> 0]
    /\ removed = [id \in JobIds |-> 0]
    /\ cleaned = [id \in JobIds |-> FALSE]
    /\ resp = NoResp

\* --------------------------------------------------- processFilesAsync
Job(t) == task[t].jobId
At(t, pc) == running = {t} /\ task[t].pc = pc

\* processingJobs.set(jobId, rec) by task t.
Publish(t, rec) ==
    processingJobs' = [processingJobs EXCEPT ![Job(t)] = rec]

\* An exception that reaches the catch of processFilesAsync (line 716).
\* The locals of the try block are out of scope from there on.
Caught(t, msg) ==
    [IdleTask EXCEPT !.pc = "catch", !.jobId = task[t].jobId, !.arch = task[t].arch,
                     !.error = msg, !.pub = task[t].pub]
Throw(t, msg) ==
    /\ task' = [task EXCEPT ![t] = Caught(t, msg)]
    /\ UNCHANGED <<processingJobs, disk>>

\* The setImmediate callback: processFilesAsync starts and publishes the
\* extracting record (lines 489-491, 562-575).  The callbacks of
\* setImmediate run in the order in which they were queued.
Start(t) ==
    /\ running = NoTask
    /\ task[t].pc = "scheduled"
    /\ \A u \in Tasks : u < t => task[u].pc # "scheduled"
    /\ running' = {t}
    /\ Publish(t, ExtractingRec(Job(t)))
    /\ task' = [task EXCEPT ![t].pc = "mkdir", ![t].pub = ExtractingRec(Job(t))]
    /\ UNCHANGED <<clock, submitted, disk, timers, rmCalls, removed, cleaned>>
    /\ resp' = NoResp

\* fs.mkdirSync of extracted/ and output/ (lines 577-578).
Mkdir(t) ==
    /\ At(t, "mkdir")
    /\ \/ /\ disk' = [disk EXCEPT ![Job(t)].exists = TRUE,
                                  ![Job(t)].outDirs = @ \cup {<< >>}]
          /\ task' = [task EXCEPT ![t].pc = "extract"]
          /\ UNCHANGED processingJobs
       \/ /\ \E created \in BOOLEAN :
                disk' = [disk EXCEPT ![Job(t)].exists = @ \/ created]
          /\ task' = [task EXCEPT ![t] = Caught(t, MsgFs)]
          /\ UNCHANGED processingJobs
    /\ UNCHANGED <<clock, submitted, running, timers, rmCalls, removed, cleaned>>
    /\ resp' = NoResp

\* new AdmZip(fileBuffer), extractAllTo, and the converting record
\* (lines 581-589).
Extract(t) ==
    /\ At(t, "extract")
    /\ \/ /\ task[t].arch.corrupt
          /\ Throw(t, MsgZip)
       \/ /\ ~task[t].arch.corrupt
          /\ ~disk[Job(t)].exists
          /\ Throw(t, MsgNoEnt)
       \/ /\ ~task[t].arch.corrupt
          /\ Throw(t, MsgFs)
       \/ /\ ~task[t].arch.corrupt
          /\ disk[Job(t)].exists
          /\ disk' = [disk EXCEPT ![Job(t)].extracted =
                         extractAllTo(@, task[t].arch.tree)]
          /\ Publish(t, ConvertingRec(Job(t)))
          /\ task' = [task EXCEPT ![t].pc = "count",
                                  ![t].pub = ConvertingRec(Job(t))]
    /\ UNCHANGED <<clock, submitted, running, timers, rmCalls, removed, cleaned>>
    /\ resp' = NoResp

\* countPngs(extractDir) and the first readdirSync of processDirectory
\* (lines 592-612).
Count(t) ==
    /\ At(t, "count")
    /\ \/ /\ ~disk[Job(t)].exists
          /\ Throw(t, MsgNoEnt)
       \/ Throw(t, MsgFs)
       \/ /\ disk[Job(t)].exists
          /\ task' = [task EXCEPT
                 ![t].pc = "walk",
                 ![t].totalPngs = countPngs(disk[Job(t)].extracted, << >>),
                 ![t].processedPngs = 0,
                 ![t].items = readdirSync(disk[Job(t)].extracted, << >>)]
          /\ UNCHANGED <<processingJobs, disk>>
    /\ UNCHANGED <<clock, submitted, running, timers, rmCalls, removed, cleaned>>
    /\ resp' = NoResp

\* Variant of SkipFile: the loop does not move on from the file that failed.
SkipFileRetry(t) ==
    task' = [task EXCEPT ![t].pc = "walk", ![t].buf = "none"]
\* Variant of SkipFile: the conversion error leaves the walk, as in the
\* synchronous handler of lines 213-219, which has no try around it.
SkipFileRethrow(t) ==
    task' = [task EXCEPT ![t] = Caught(t, MsgCompress)]
\* The catch of one file's conversion (lines 661-667): logged, the loop
\* goes on with the next item.
SkipFile(t) ==
    task' = [task EXCEPT ![t].pc = "walk", ![t].items = Tail(@),
                         ![t].failedPngs = @ + 1, ![t].buf = "none"]

\* One turn of the for loop of processDirectory (lines 614-671), up to the
\* codec call for a PNG.  items is the rest of the loops in progress: the
\* listing of a subdirectory is put in front of the rest of its parent's.
\* A call of fs outside the try of lines 626-667 may throw at any time;
\* readFileSync and writeFileSync inside it throw when the path is gone.
Walk(t) ==
    /\ At(t, "walk")
    /\ task[t].items # << >>
    /\ LET id == Job(t)
           item == Head(task[t].items)
       IN
       \/ /\ ~InTree(disk[id].extracted, item)      \* statSync: ENOENT
          /\ Throw(t, MsgNoEnt)
          /\ UNCHANGED running
       \/ /\ Throw(t, MsgFs)                        \* statSync, mkdirSync,
          /\ UNCHANGED running                      \* readdirSync, copyFileSync
       \/ /\ InTree(disk[id].extracted, item)
          /\ LET stat == Lookup(disk[id].extracted, item)
             IN
             IF stat.isDir
             THEN /\ disk' = [disk EXCEPT ![id].exists = TRUE,
                                           ![id].outDirs = @ \cup Parents(Child(item))]
                  /\ task' = [task EXCEPT ![t].items =
                         readdirSync(disk[id].extracted, Child(item)) \o Tail(@)]
                  /\ UNCHANGED <<processingJobs, running>>
             ELSE IF toLowerCase(item.ext) = "png"
             THEN /\ task' = [task EXCEPT ![t].pc = "convert",
                                          ![t].buf = stat.img]
                  /\ running' = NoTask
                  /\ UNCHANGED <<processingJobs, disk>>
             ELSE IF item.dir \in disk[id].outDirs
             THEN /\ disk' = [disk EXCEPT ![id].out =
                         WriteOut(@, OutFile(item.dir, item.base, item.ext, "copy", 0))]
                  /\ task' = [task EXCEPT ![t].items = Tail(@)]
                  /\ UNCHANGED <<processingJobs, running>>
             ELSE /\ Throw(t, MsgNoEnt)
                  /\ UNCHANGED running
    /\ UNCHANGED <<clock, submitted, timers, rmCalls, removed, cleaned>>
    /\ resp' = NoResp

\* The codec has answered (line 628): write the .webp file, count it and
\* publish the progress (lines 629-660), or the catch of lines 661-667.
\* The calls of sharp of one convertToWebP change nothing another callback
\* can see, so they are one step.
ConvertDone(t) ==
    /\ running = NoTask
    /\ task[t].pc = "convert"
    /\ LET id == Job(t)
           item == Head(task[t].items)
           webp == convertToWebP(task[t].buf, StartQuality)
           processedPngs == task[t].processedPngs + 1
           rec == FileRec(id, processedPngs, task[t].totalPngs)
       IN
       \/ /\ ~webp.ok
          /\ SkipFile(t)
          /\ running' = {t}
          /\ UNCHANGED <<processingJobs, disk>>
       \/ /\ webp.ok                                \* writeFileSync: ENOENT
          /\ ~(item.dir \in disk[id].outDirs)
          /\ SkipFile(t)
          /\ running' = {t}
          /\ UNCHANGED <<processingJobs, disk>>
       \/ /\ webp.ok
          /\ item.dir \in disk[id].outDirs
          /\ disk' = [disk EXCEPT ![id].out =
                 WriteOut(@, OutFile(item.dir, item.base, "webp", "webp", webp.len))]
          /\ Publish(t, rec)
          /\ task' = [task EXCEPT
                 ![t].pc = IF processedPngs % PauseEvery = 0 THEN "pause" ELSE "walk",
                 ![t].items = Tail(@), ![t].buf = "none",
                 ![t].processedPngs = processedPngs, ![t].pub = rec]
          /\ running' = IF processedPngs % PauseEvery = 0 THEN NoTask ELSE {t}
    /\ UNCHANGED <<clock, submitted, timers, rmCalls, removed, cleaned>>
    /\ resp' = NoResp

\* The 50 ms pause after every fifth converted file is over (lines 658-660).
PauseDone(t) ==
    /\ running = NoTask
    /\ task[t].pc = "pause"
    /\ running' = {t}
    /\ task' = [task EXCEPT ![t].pc = "walk"]
    /\ UNCHANGED <<clock, submitted, processingJobs, disk, timers, rmCalls, removed, cleaned>>
    /\ resp' = NoResp

\* processDirectory has returned: the zipping record (lines 674-682).
WalkEnd(t) ==
    /\ At(t, "walk")
    /\ task[t].items = << >>
    /\ Publish(t, ZippingRec(Job(t)))
    /\ task' = [task EXCEPT ![t].pc = "zip", ![t].pub = ZippingRec(Job(t))]
    /\ UNCHANGED <<clock, submitted, running, disk, timers, rmCalls, removed, cleaned>>
    /\ resp' = NoResp

\* addDirectoryToZip(outputDir), writeZip and the completed record
\* (lines 684-711); processFilesAsync returns.
Zip(t) ==
    /\ At(t, "zip")
    /\ LET id == Job(t)
           rec == CompletedRec(id, task[t].processedPngs, task[t].totalPngs)
       IN
       \/ /\ ~(<< >> \in disk[id].outDirs)
          /\ Throw(t, MsgNoEnt)
          /\ UNCHANGED running
       \/ /\ Throw(t, MsgFs)
          /\ UNCHANGED running
       \/ /\ << >> \in disk[id].outDirs
          /\ disk' = [disk EXCEPT ![id].zipped = TRUE, ![id].zip = disk[id].out]
          /\ Publish(t, rec)
          /\ task' = [task EXCEPT ![t].pc = "done", ![t].pub = rec]
          /\ running' = NoTask
    /\ UNCHANGED <<clock, submitted, timers, rmCalls, removed, cleaned>>
    /\ resp' = NoResp

\* The catch of processFilesAsync: the failed record (lines 716-722).
Catch(t) ==
    /\ At(t, "catch")
    /\ Publish(t, FailedRec(Job(t), task[t].error))
    /\ task' = [task EXCEPT ![t].pc = "cleanup",
                            ![t].pub = FailedRec(Job(t), task[t].error)]
    /\ UNCHANGED <<clock, submitted, running, disk, timers, rmCalls, removed, cleaned>>
    /\ resp' = NoResp

\* The cleanup on error (lines 724-731): rmSync when the directory exists;
\* an exception of rmSync is logged and goes no further.
CleanupOnError(t) ==
    /\ At(t, "cleanup")
    /\ \/ /\ ~disk[Job(t)].exists
          /\ UNCHANGED <<disk, rmCalls, removed>>
       \/ /\ disk[Job(t)].exists
          /\ disk' = [disk EXCEPT ![Job(t)] = NoDisk]
          /\ rmCalls' = [rmCalls EXCEPT ![Job(t)] = @ + 1]
          /\ removed' = [removed EXCEPT ![Job(t)] = @ + 1]
       \/ /\ disk[Job(t)].exists                   \* rmSync throws
          /\ rmCalls' = [rmCalls EXCEPT ![Job(t)] = @ + 1]
          /\ UNCHANGED <<disk, removed>>
    /\ task' = [task EXCEPT ![t].pc = "done"]
    /\ running' = NoTask
    /\ UNCHANGED <<clock, submitted, processingJobs, timers, cleaned>>
    /\ resp' = NoResp

\* ------------------------------------------------------------ the handlers
\* Variant of Submit: processFilesAsync is called by the handler, as the
\* synchronous handler of lines 174-262 does its work before it answers,
\* and not left to setImmediate.
SubmitThenRun(arch) ==
    /\ running = NoTask
    /\ submitted < MaxJobs
    /\ submitted' = submitted + 1
    /\ task' = [task EXCEPT ![submitted + 1] =
                   [IdleTask EXCEPT !.pc = "mkdir", !.jobId = clock, !.arch = arch,
                                    !.pub = ExtractingRec(clock)]]
    /\ processingJobs' = [processingJobs EXCEPT ![clock] = ExtractingRec(clock)]
    /\ running' = {submitted + 1}
    /\ resp' = [op |-> "submit", code |-> 200, jobId |-> clock]
    /\ UNCHANGED <<clock, disk, timers, rmCalls, removed, cleaned>>
\* POST /convert-folder-structure (lines 469-499): the job id is the clock
\* reading, the response is sent, the orchestrator is left to setImmediate.
Submit(arch) ==
    /\ running = NoTask
    /\ submitted < MaxJobs
    /\ submitted' = submitted + 1
    /\ task' = [task EXCEPT ![submitted + 1] =
                   [IdleTask EXCEPT !.pc = "scheduled", !.jobId = clock, !.arch = arch]]
    /\ resp' = [op |-> "submit", code |-> 200, jobId |-> clock]
    /\ UNCHANGED <<clock, running, processingJobs, disk, timers, rmCalls, removed, cleaned>>

\* Date.now() moves on; only a submission reads it.
Tick ==
    /\ clock < MaxClock
    /\ submitted < MaxJobs
    /\ clock' = clock + 1
    /\ UNCHANGED <<submitted, task, running, processingJobs, disk, timers, rmCalls, removed, cleaned>>
    /\ resp' = NoResp

\* GET /status/:jobId (lines 502-511).
GetStatus(id) ==
    /\ running = NoTask
    /\ resp' = IF processingJobs[id] = NoJob
               THEN [op |-> "status", jobId |-> id, code |-> 404]
               ELSE [op |-> "status", jobId |-> id, code |-> 200,
                     body |-> processingJobs[id]]
    /\ UNCHANGED <<clock, submitted, task, running, processingJobs, disk, timers, rmCalls, removed, cleaned>>

\* One element of the list of GET /jobs (lines 515-521); a field the
\* record lacks is left out of the JSON, job.x || 0 is 0 for it.
Summary(id, job) ==
    LET processedFiles ==
            IF "processedFiles" \in DOMAIN job THEN job.processedFiles ELSE 0
        totalFiles ==
            IF "totalFiles" \in DOMAIN job THEN job.totalFiles ELSE 0
    IN  IF "progress" \in DOMAIN job
        THEN [jobId |-> id, status |-> job.status, progress |-> job.progress,
              processedFiles |-> processedFiles, totalFiles |-> totalFiles]
        ELSE [jobId |-> id, status |-> job.status,
              processedFiles |-> processedFiles, totalFiles |-> totalFiles]

\* GET /jobs (lines 514-527).
ListJobs ==
    /\ running = NoTask
    /\ LET ids == {id \in JobIds : processingJobs[id] # NoJob}
       IN  resp' = [op |-> "jobs", code |-> 200, activeJobs |-> Cardinality(ids),
                    jobs |-> [id \in ids |-> Summary(id, processingJobs[id])]]
    /\ UNCHANGED <<clock, submitted, task, running, processingJobs, disk, timers, rmCalls, removed, cleaned>>

\* Variant of NotReady: only a missing record is turned away.
NotReadyMissingOnly(job) == job = NoJob
\* !job || job.status !== "completed" (line 534).
NotReady(job) == job = NoJob \/ job.status # "completed"

\* GET /download/:jobId (lines 530-559): 404 unless the record is
\* completed; the archive is read and sent and a cleanup timer is set;
\* 500 when readFileSync throws, and then no timer is set.
Download(id) ==
    /\ running = NoTask
    /\ LET job == processingJobs[id]
       IN  IF NotReady(job)
           THEN /\ resp' = [op |-> "download", jobId |-> id, code |-> 404]
                /\ UNCHANGED timers
           ELSE \/ /\ disk[id].zipped
                   /\ timers[id] < MaxTimers
                   /\ resp' = [op |-> "download", jobId |-> id, code |-> 200,
                               body |-> disk[id].zip]
                   /\ timers' = [timers EXCEPT ![id] = @ + 1]
                \/ /\ resp' = [op |-> "download", jobId |-> id, code |-> 500]
                   /\ UNCHANGED timers
    /\ UNCHANGED <<clock, submitted, task, running, processingJobs, disk, rmCalls, removed, cleaned>>

\* Variant of Cleanup: the timer removes the directory and leaves the
\* entry of the registry.
CleanupDirOnly(id) ==
    /\ running = NoTask
    /\ timers[id] > 0
    /\ timers' = [timers EXCEPT ![id] = @ - 1]
    /\ cleaned' = [cleaned EXCEPT ![id] = TRUE]
    /\ IF disk[id].exists
       THEN /\ disk' = [disk EXCEPT ![id] = NoDisk]
            /\ rmCalls' = [rmCalls EXCEPT ![id] = @ + 1]
            /\ removed' = [removed EXCEPT ![id] = @ + 1]
       ELSE UNCHANGED <<disk, rmCalls, removed>>
    /\ UNCHANGED <<clock, submitted, task, running, processingJobs>>
    /\ resp' = NoResp
\* A cleanup timer of a download fires (lines 550-555).  rmSync is taken
\* to succeed here: nothing catches an exception of it in the callback.
Cleanup(id) ==
    /\ running = NoTask
    /\ timers[id] > 0
    /\ timers' = [timers EXCEPT ![id] = @ - 1]
    /\ processingJobs' = [processingJobs EXCEPT ![id] = NoJob]
    /\ cleaned' = [cleaned EXCEPT ![id] = TRUE]
    /\ IF disk[id].exists
       THEN /\ disk' = [disk EXCEPT ![id] = NoDisk]
            /\ rmCalls' = [rmCalls EXCEPT ![id] = @ + 1]
            /\ removed' = [removed EXCEPT ![id] = @ + 1]
       ELSE UNCHANGED <<disk, rmCalls, removed>>
    /\ UNCHANGED <<clock, submitted, task, running>>
    /\ resp' = NoResp

\* ------------------------------------------------------ the specification
Next ==
    \/ \E arch \in Archives : Submit(arch)
    \/ Tick
    \/ \E id \in JobIds : GetStatus(id)
    \/ ListJobs
    \/ \E id \in JobIds : Download(id)
    \/ \E id \in JobIds : Cleanup(id)
    \/ \E t \in Tasks : Start(t)
    \/ \E t \in Tasks : Mkdir(t)
    \/ \E t \in Tasks : Extract(t)
    \/ \E t \in Tasks : Count(t)
    \/ \E t \in Tasks : Walk(t)
    \/ \E t \in Tasks : ConvertDone(t)
    \/ \E t \in Tasks : PauseDone(t)
    \/ \E t \in Tasks : WalkEnd(t)
    \/ \E t \in Tasks : Zip(t)
    \/ \E t \in Tasks : Catch(t)
    \/ \E t \in Tasks : CleanupOnError(t)

Spec == Init /\ [][Next]_vars

\* The steps of task t.  The event loop runs the setImmediate callback,
\* the continuation of a codec call and of a pause once they are due, and
\* runs a synchronous block to its end; a cleanup timer fires once due.
TaskStep(t) ==
    \/ Start(t) \/ Mkdir(t) \/ Extract(t) \/ Count(t) \/ Walk(t)
    \/ ConvertDone(t) \/ PauseDone(t) \/ WalkEnd(t) \/ Zip(t)
    \/ Catch(t) \/ CleanupOnError(t)

FairSpec ==
    /\ Init /\ [][Next]_vars
    /\ \A t \in Tasks : WF_vars(TaskStep(t))
    /\ \A id \in JobIds : WF_vars(Cleanup(id))

\* The runs in which no two submissions read the same Date.now().
FreshId == \A t \in Tasks : task[t].pc = "idle" \/ task[t].jobId # clock
NextUniqueIds == Next /\ (submitted' # submitted => FreshId)
SpecUniqueIds == Init /\ [][NextUniqueIds]_vars
FairUniqueIds ==
    /\ SpecUniqueIds
    /\ \A t \in Tasks : WF_vars(TaskStep(t))
    /\ \A id \in JobIds : WF_vars(Cleanup(id))

TypeOK ==
    /\ clock \in JobIds
    /\ submitted \in 0..MaxJobs
    /\ running \in {NoTask} \cup {{t} : t \in Tasks}
    /\ \A id \in JobIds : timers[id] \in 0..MaxTimers

\* ------------------------------------------------------------- the claims
Terminal == {"completed", "failed"}
Published(t) == task'[t].pub # task[t].pub

StageSteps ==
    { <<"absent", "extracting">>, <<"extracting", "converting">>,
      <<"converting", "converting">>, <<"converting", "zipping">>,
      <<"zipping", "completed">>, <<"extracting", "failed">>,
      <<"converting", "failed">>, <<"zipping", "failed">> }

\* C1: every record a call of processFilesAsync publishes goes into the
\* registry under its job id, and its status follows the order extracting,
\* converting (once per converted file), zipping, completed, or goes from
\* one of the first three to failed.
C1_StageOrder ==
    [][\A t \in Tasks :
          Published(t) =>
              /\ <<task[t].pub.status, task'[t].pub.status>> \in StageSteps
              /\ processingJobs'[task'[t].jobId] = task'[t].pub]_vars

\* A task went through every stage, with files converted on the way.
C1_Witness ==
    \E t \in Tasks :
        /\ task[t].pub.status = "completed"
        /\ task[t].processedPngs >= PauseEvery

\* C2: a record that is completed or failed stays as it is until a cleanup
\* timer deletes it.
C2_TerminalRecordStable ==
    [][\A id \in JobIds :
          processingJobs[id].status \in Terminal =>
              \/ processingJobs'[id] = processingJobs[id]
              \/ /\ processingJobs'[id] = NoJob
                 /\ timers'[id] < timers[id]]_vars

\* C3: the progress of the records a task publishes before it fails never
\* goes down.
C3_ProgressMonotone ==
    [][\A t \in Tasks :
          ( /\ Published(t)
            /\ task[t].pub # NoJob
            /\ task'[t].pub.status # "failed" ) =>
              task'[t].pub.progress >= task[t].pub.progress]_vars

\* A task in the converting stage with a converted file behind it and a
\* failed one.
C3_Witness ==
    \E t \in Tasks :
        /\ task[t].pub.status = "converting"
        /\ task[t].pub.progress > 10
        /\ task[t].failedPngs > 0

\* C4: every submitted job gets to the end of processFilesAsync with a
\* completed or failed record published.
C4_EveryJobTerminates ==
    \A t \in Tasks :
        (task[t].pc = "scheduled") ~>
            (task[t].pc = "done" /\ task[t].pub.status \in Terminal)

\* Every task has ended, one completed after a pause and one failed.
C4_Witness ==
    /\ \A t \in Tasks : task[t].pc = "done"
    /\ \E t \in Tasks : task[t].pub.status = "failed"
    /\ \E t \in Tasks : /\ task[t].pub.status = "completed"
                        /\ task[t].processedPngs = PauseEvery

\* Task t waits for a codec call that will fail.
ConversionFails(t) ==
    /\ task[t].pc = "convert"
    /\ ~convertToWebP(task[t].buf, StartQuality).ok

\* C5: when convertToWebP fails for a file, the task goes on with the next
\* item without publishing anything; a task that ends without an exception
\* outside the per-file try ends completed.
C5_ConversionFailureIsLocal ==
    /\ [][\A t \in Tasks :
             (ConversionFails(t) /\ task'[t] # task[t]) =>
                 /\ task'[t].pc = "walk"
                 /\ task'[t].items = Tail(task[t].items)
                 /\ ~Published(t)
                 /\ processingJobs' = processingJobs]_vars
    /\ [](\A t \in Tasks :
             (task[t].pc = "done" /\ task[t].error = "") =>
                 task[t].pub.status = "completed")

\* A task completed although two of its files failed to convert.
C5_Witness ==
    \E t \in Tasks :
        /\ task[t].pc = "done"
        /\ task[t].pub.status = "completed"
        /\ task[t].failedPngs >= 2

\* C6: the completed record counts every attempted convertible file, the
\* converted and the failed ones, in processedFiles and in totalFiles.
C6_ProcessedCountsAttempts ==
    \A t \in Tasks :
        (task[t].pc = "done" /\ task[t].pub.status = "completed") =>
            /\ task[t].pub.processedFiles
                   = task[t].processedPngs + task[t].failedPngs
            /\ task[t].pub.totalFiles
                   = task[t].processedPngs + task[t].failedPngs

\* The positions of a task inside the try of processFilesAsync at which a
\* call of fs or of AdmZip is next.
TryBlock == {"mkdir", "extract", "count", "walk", "zip"}

\* C7: an exception outside the per-file try comes from one of the stage
\* operations and publishes nothing itself; the catch publishes failed
\* with the message of the exception; the cleanup calls rmSync when the
\* directory exists and, whether rmSync throws or not, ends the task with
\* the registry as the catch left it.
C7_StageErrorFailsJob ==
    /\ [][\A t \in Tasks :
             (task'[t].pc = "catch" /\ task[t].pc # "catch") =>
                 /\ task[t].pc \in TryBlock
                 /\ task'[t].error \in {MsgZip, MsgFs, MsgNoEnt}
                 /\ ~Published(t)
                 /\ processingJobs' = processingJobs]_vars
    /\ [][\A t \in Tasks :
             (task[t].pc = "catch" /\ task'[t] # task[t]) =>
                 /\ task'[t].pc = "cleanup"
                 /\ processingJobs'[Job(t)].status = "failed"
                 /\ processingJobs'[Job(t)].error = task[t].error]_vars
    /\ [][\A t \in Tasks :
             (task[t].pc = "cleanup" /\ task'[t] # task[t]) =>
                 /\ task'[t].pc = "done"
                 /\ disk[Job(t)].exists => rmCalls'[Job(t)] = rmCalls[Job(t)] + 1
                 /\ processingJobs' = processingJobs
                 /\ processingJobs'[Job(t)].status = "failed"
                 /\ processingJobs'[Job(t)].error = task[t].error]_vars

\* A corrupt archive failed the job and rmSync threw: the directory is
\* still there and the record is failed with the message of the archive.
C7_Witness ==
    \E t \in Tasks :
        /\ task[t].pc = "done"
        /\ task[t].error = MsgZip
        /\ processingJobs[Job(t)].status = "failed"
        /\ processingJobs[Job(t)].error = MsgZip
        /\ disk[Job(t)].exists
        /\ rmCalls[Job(t)] = 1

\* C8: a download answers 200 with the archive only for a completed
\* record; for any other id it answers 404 and sets no timer.
C8_DownloadOnlyWhenCompleted ==
    [][\A id \in JobIds :
          (resp'.op = "download" /\ resp'.jobId = id) =>
              IF processingJobs[id].status = "completed"
              THEN /\ resp'.code \in {200, 500}
                   /\ resp'.code = 200 => resp'.body = disk[id].zip
              ELSE /\ resp'.code = 404
                   /\ timers' = timers]_vars

\* A download of a failed job was answered 404 while a completed job of
\* another id waits for its cleanup timer.
C8_Witness ==
    /\ resp.op = "download"
    /\ resp.code = 404
    /\ processingJobs[resp.jobId].status = "failed"
    /\ \E id \in JobIds : timers[id] > 0

\* C9: after a download answered 200 the entry is deleted and the
\* directory removed, and from the cleanup on the entry stays deleted.
C9_DownloadThenCleaned ==
    /\ \A id \in JobIds :
          (resp.op = "download" /\ resp.code = 200 /\ resp.jobId = id) ~>
              (processingJobs[id] = NoJob /\ ~disk[id].exists)
    /\ [][\A id \in JobIds :
             (cleaned[id] /\ processingJobs[id] = NoJob) =>
                 processingJobs'[id] = NoJob]_vars

\* C10: temp/<id> is removed at most once.
C10_RemovedAtMostOnce ==
    \A id \in JobIds : removed[id] <= 1

\* C11: from the submission on and until a cleanup timer has run for the
\* id, the registry holds a record for the id of every submitted job, and
\* a status query for it is answered 200.
C11_RecordFromSubmission ==
    \A t \in Tasks :
        (task[t].pc # "idle" /\ ~cleaned[Job(t)]) =>
            /\ processingJobs[Job(t)] # NoJob
            /\ (resp.op = "status" /\ resp.jobId = Job(t)) => resp.code = 200

\* C12: the step that accepts a submission answers with the job id and
\* does nothing else than schedule the task: the task has published
\* nothing and no callback of it runs, the registry and the directories
\* are as they were; the first step of processFilesAsync comes later, as a
\* step of its own.
C12_ResponseBeforeWork ==
    [][\A t \in Tasks :
          /\ (task[t].pc = "idle" /\ task'[t] # task[t]) =>
                 /\ resp'.op = "submit"
                 /\ resp'.code = 200
                 /\ resp'.jobId = task'[t].jobId
                 /\ task'[t].pc = "scheduled"
                 /\ task'[t].pub = NoJob
                 /\ running' = NoTask
                 /\ processingJobs' = processingJobs
                 /\ disk' = disk
          /\ (task[t].pc = "scheduled" /\ task'[t] # task[t]) =>
                 /\ resp'.op = "none"
                 /\ task'[t].pc = "mkdir"
                 /\ running' = {t}]_vars

\* A submission has just been answered while the task of an earlier one
\* waits for the codec: the new task is scheduled and has touched nothing.
C12_Witness ==
    /\ resp.op = "submit"
    /\ \E t, u \in Tasks :
          /\ task[t].pc = "scheduled"
          /\ task[t].jobId = resp.jobId
          /\ processingJobs[Job(t)] = NoJob
          /\ ~disk[Job(t)].exists
          /\ task[u].pc = "convert"

\* C13: no two submissions get the same job id.
C13_JobIdsNeverReused ==
    \A t, u \in Tasks :
        (t # u /\ task[t].pc # "idle" /\ task[u].pc # "idle") =>
            task[t].jobId # task[u].jobId

\* The counts a job of the archive ends with when no other job runs: the
\* PNG files of its tree, and those of them that convertToWebP converts.
PngEntries(tree) ==
    {i \in 1..Len(tree) : ~tree[i].isDir /\ toLowerCase(tree[i].ext) = "png"}
AloneTotal(arch) == Cardinality(PngEntries(arch.tree))
AloneProcessed(arch) ==
    Cardinality({i \in PngEntries(arch.tree) :
                    convertToWebP(arch.tree[i].img, StartQuality).ok})
\* Two submitted jobs whose archives have no path in common.
DisjointJobs(t, u) ==
    /\ t # u
    /\ task[t].pc # "idle"
    /\ task[u].pc # "idle"
    /\ \A i \in 1..Len(task[t].arch.tree), j \in 1..Len(task[u].arch.tree) :
          ~SamePath(task[t].arch.tree[i], task[u].arch.tree[j])

\* C14: of two jobs with disjoint archives, each completes with the counts
\* it has when run alone, and no step of the task of one changes the
\* record or the directory of the other.
C14_JobsIndependent ==
    /\ [](\A t, u \in Tasks :
            ( /\ DisjointJobs(t, u)
              /\ task[t].pc = "done"
              /\ task[t].pub.status = "completed" ) =>
                /\ task[t].pub.totalFiles = AloneTotal(task[t].arch)
                /\ task[t].pub.processedFiles = AloneProcessed(task[t].arch))
    /\ [][\A t, u \in Tasks :
             (DisjointJobs(t, u) /\ task'[t] # task[t]) =>
                 /\ processingJobs'[Job(u)] = processingJobs[Job(u)]
                 /\ disk'[Job(u)] = disk[Job(u)]]_vars

\* The quality ladder of the claims: 90, 80, ..., 10.
Ladder == [i \in 1..9 |-> 100 - 10 * i]
\* The conversion a task waits for: the result of convertToWebP for the
\* file it has read.
Converting(t) == task[t].pc = "convert"
Conversion(t) == convertToWebP(task[t].buf, StartQuality)

\* C15: the levels convertToWebP hands to the codec are the first ones of
\* 90, 80, ..., 10, at least one and at most nine; every level before the
\* last one tried gave an output over the ceiling; when all nine were
\* tried the last one did not fit or was the one returned, and when fewer
\* were tried the last one fits or the codec rejected the input.
C15_QualityLadder ==
    \A t \in Tasks :
        Converting(t) =>
            LET r == Conversion(t)
                n == Len(r.tried)
            IN  /\ n \in 1..9
                /\ \A i \in 1..n : r.tried[i] = Ladder[i]
                /\ \A i \in 1..n : r.tried[i] >= 10
                /\ \A i \in 1..(n - 1) : Encode(task[t].buf, r.tried[i]) > maxSize
                /\ r.ok => /\ Encode(task[t].buf, r.tried[n]) \in 0..maxSize
                           /\ r.quality = r.tried[n]
                /\ ~r.ok => \/ Encode(task[t].buf, r.tried[n]) = CodecError
                            \/ /\ n = 9
                               /\ Encode(task[t].buf, r.tried[n]) > maxSize

\* Three conversions are on their way or were: one that goes down the
\* whole ladder and fails, one that succeeds at the last level, and one
\* that stops in the middle.
C15_Witness ==
    \E t, u \in Tasks :
        /\ Converting(t)
        /\ Len(Conversion(t).tried) = 9
        /\ ~Conversion(t).ok
        /\ Converting(u)
        /\ Len(Conversion(u).tried) = 9
        /\ Conversion(u).ok
        /\ \E f \in disk[Job(t)].out : f.kind = "webp" /\ f.len = 40 * 50000

\* C16 as stated: convertToWebP returns a buffer of at most 2 MiB or fails
\* with the error of the quality search; there is no other outcome.
C16_CeilingOrCompressionError ==
    \A t \in Tasks :
        Converting(t) =>
            LET r == Conversion(t)
            IN  /\ r.ok => r.len <= 2 * 1024 * 1024
                /\ ~r.ok => r.msg = MsgCompress

\* C16: convertToWebP returns the output of the codec at the level it
\* stopped at, of at most 2 MiB, or fails: with the error of the quality
\* search when the codec's output was over 2 MiB at each of the nine
\* levels, and with the codec's own error when the codec rejects the input.
C16_CeilingOrError ==
    \A t \in Tasks :
        Converting(t) =>
            LET r == Conversion(t)
            IN  /\ r.ok => /\ r.len <= 2 * 1024 * 1024
                           /\ r.len = Encode(task[t].buf, r.quality)
                /\ ~r.ok => r.msg \in {MsgCompress, MsgCodec}
                /\ (~r.ok /\ r.msg = MsgCompress) <=>
                       \A i \in 1..9 : Encode(task[t].buf, Ladder[i]) > 2 * 1024 * 1024
                /\ (~r.ok /\ r.msg = MsgCodec) <=>
                       \E i \in 1..9 :
                           /\ Encode(task[t].buf, Ladder[i]) = CodecError
                           /\ \A j \in 1..(i - 1) :
                                  Encode(task[t].buf, Ladder[j]) > 2 * 1024 * 1024

\* The codec rejects the file a task converts, and a file has been
\* written whose conversion came out at 2 MiB to the byte at level 10.
C16_Witness ==
    \E t \in Tasks :
        /\ Converting(t)
        /\ Conversion(t).msg = MsgCodec
        /\ \E id \in JobIds : \E f \in disk[id].out :
              /\ f.kind = "webp"
              /\ f.base = "p3"
              /\ f.len = 2 * 1024 * 1024

\* The entries the output archive of a job of the archive is to have: for
\* each PNG that convertToWebP converts, the image at its path with the
\* extension webp, and each other file at its own path.
ConvertedOf(arch) ==
    {i \in PngEntries(arch.tree) :
        convertToWebP(arch.tree[i].img, StartQuality).ok}
PassThroughOf(arch) ==
    {i \in 1..Len(arch.tree) \ PngEntries(arch.tree) : ~arch.tree[i].isDir}
HasEntry(zip, dir, base, ext, kind) ==
    \E f \in zip : f.dir = dir /\ f.base = base /\ f.ext = ext /\ f.kind = kind

\* C17: when a job completes, its archive has one converted image for
\* each PNG that was converted, at the path of the PNG with the extension
\* webp, and every other file at its own path, and nothing else.
C17_OutputArchiveComplete ==
    \A t \in Tasks :
        ( /\ task[t].pc = "done"
          /\ task[t].pub.status = "completed"
          /\ disk[Job(t)].zipped ) =>
            LET arch == task[t].arch
                zip == disk[Job(t)].zip
            IN  /\ \A i \in ConvertedOf(arch) :
                      HasEntry(zip, arch.tree[i].dir, arch.tree[i].base, "webp", "webp")
                /\ \A i \in PassThroughOf(arch) :
                      HasEntry(zip, arch.tree[i].dir, arch.tree[i].base,
                               arch.tree[i].ext, "copy")
                /\ Cardinality(zip) = Cardinality(ConvertedOf(arch))
                                          + Cardinality(PassThroughOf(arch))

\* Task t is in the walk or at the archive step and counted no PNG.
ZeroTotal(t) == task[t].pc \in {"walk", "zip"} /\ task[t].totalPngs = 0

\* C18: over an extracted tree without a PNG the count is 0 and raises
\* nothing; from there the task converts nothing and never waits, the only
\* exceptions are those of fs, and what it publishes is the zipping record
\* with progress 90 right after the converting record with progress 10,
\* and then the completed record with progress 100, totalFiles 0 and
\* processedFiles 0.
C18_ZeroPngCompletes ==
    [][\A t \in Tasks :
          /\ ( /\ task[t].pc = "count"
               /\ task'[t].pc # "count"
               /\ disk[Job(t)].exists
               /\ PngEntries(disk[Job(t)].extracted) = {} ) =>
                  \/ task'[t].pc = "walk" /\ task'[t].totalPngs = 0
                  \/ task'[t].pc = "catch" /\ task'[t].error = MsgFs
          /\ (ZeroTotal(t) /\ task'[t] # task[t]) =>
                 /\ task'[t].pc \in {"walk", "zip", "done", "catch"}
                 /\ task'[t].pc = "catch" => task'[t].error \in {MsgFs, MsgNoEnt}
                 /\ task'[t].pc \in {"walk", "zip"} => running' = {t}
                 /\ task'[t].processedPngs = 0
                 /\ (Published(t) /\ task[t].pc = "walk") =>
                        /\ task[t].pub.status = "converting"
                        /\ task[t].pub.progress = 10
                        /\ task'[t].pub.status = "zipping"
                        /\ task'[t].pub.progress = 90
                 /\ (Published(t) /\ task[t].pc = "zip") =>
                        /\ task[t].pub.progress = 90
                        /\ task'[t].pub.status = "completed"
                        /\ task'[t].pub.progress = 100
                        /\ task'[t].pub.totalFiles = 0
                        /\ task'[t].pub.processedFiles = 0
                        /\ processingJobs'[Job(t)] = task'[t].pub]_vars

\* The job of the archive that has only readme.txt has completed with no
\* file counted, and readme.txt is in its archive.
C18_Witness ==
    \E t \in Tasks :
        /\ task[t].arch = ArchNoPng
        /\ task[t].pc = "done"
        /\ task[t].error = ""
        /\ task[t].pub.status = "completed"
        /\ task[t].pub.totalFiles = 0
        /\ task[t].pub.processedFiles = 0
        /\ processingJobs[Job(t)] = task[t].pub
        /\ HasEntry(disk[Job(t)].zip, << >>, "readme", "txt", "copy")

\* The record has an error message exactly when it is failed, and the
\* message of a failed record is not empty.
ErrorIffFailed(rec) ==
    /\ ("error" \in DOMAIN rec) <=> (rec.status = "failed")
    /\ rec.status = "failed" => rec.error # ""

\* C19: a record of the registry has an error message exactly when its
\* status is failed, and then a non-empty one; a failed record stays in
\* the registry as it is, and a status query for its id is answered with it.
C19_ErrorIffFailed ==
    /\ [](\A id \in JobIds :
            processingJobs[id] # NoJob => ErrorIffFailed(processingJobs[id]))
    /\ [][\A id \in JobIds :
             processingJobs[id].status = "failed" =>
                 /\ processingJobs'[id] = processingJobs[id]
                 /\ (resp'.op = "status" /\ resp'.jobId = id) =>
                        /\ resp'.code = 200
                        /\ resp'.body = processingJobs[id]]_vars

\* The progress the stage of a record that is not failed stands for.
ProgressByStage(rec) ==
    CASE rec.status = "extracting" -> rec.progress = 0
      [] rec.status = "zipping"    -> rec.progress = 90
      [] rec.status = "completed"  -> rec.progress = 100
      [] rec.status = "converting" ->
             /\ rec.progress \in 10..90
             /\ IF "processedFiles" \in DOMAIN rec
                THEN /\ rec.totalFiles > 0
                     /\ rec.processedFiles > 0
                     /\ LET linear == 10 + ((rec.processedFiles * 70) \div rec.totalFiles)
                        IN  rec.progress = IF linear > 90 THEN 90 ELSE linear
                ELSE rec.progress = 10
      [] OTHER -> FALSE

\* C20: every record of the registry that is not failed has the progress
\* of its stage: 0 extracting, 90 zipping, 100 completed, and converting
\* 10 before the first file and min(90, 10 + floor(processedFiles /
\* totalFiles * 70)) after each converted file, between 10 and 90.
C20_ProgressByStage ==
    \A id \in JobIds :
        LET rec == processingJobs[id]
        IN  (rec # NoJob /\ rec.status # "failed") =>
                /\ rec.progress \in 0..100
                /\ ProgressByStage(rec)

\* The registry holds at once a converting record between two files, with
\* a progress that is not a multiple of 10, and a record of another stage.
C20_Witness ==
    \E id, other \in JobIds :
        /\ processingJobs[id].status = "converting"
        /\ "processedFiles" \in DOMAIN processingJobs[id]
        /\ processingJobs[id].processedFiles = 1
        /\ processingJobs[id].totalFiles = 3
        /\ processingJobs[id].progress = 33
        /\ processingJobs[other].status \in {"extracting", "zipping", "completed"}

\* Task t has counted the PNG files and has not failed: the record it
\* published last is of the converting stage or a later one.
Counted(t) ==
    /\ task[t].pc \in {"walk", "convert", "pause", "zip", "done"}
    /\ task[t].pub.status \in {"converting", "zipping", "completed"}

\* C21: once a task has counted, the record of its job as a status query
\* returns it and as the list of jobs shows it has totalFiles equal to the
\* count.
C21_TotalFilesFixed ==
    \A t \in Tasks :
        (Counted(t) /\ processingJobs[Job(t)] = task[t].pub) =>
            /\ (resp.op = "status" /\ resp.jobId = Job(t)) =>
                   /\ resp.code = 200
                   /\ "totalFiles" \in DOMAIN resp.body
                   /\ resp.body.totalFiles = task[t].totalPngs
            /\ resp.op = "jobs" =>
                   /\ Job(t) \in DOMAIN resp.jobs
                   /\ resp.jobs[Job(t)].totalFiles = task[t].totalPngs

\* C22: a completed record and the directory of its id change in one way
\* only: a cleanup timer fires, deletes the record and removes the
\* directory; and a timer is set only by a download that answered 200.
C22_CompletedKeptUntilDownload ==
    [][\A id \in JobIds :
          /\ processingJobs[id].status = "completed" =>
                \/ /\ processingJobs'[id] = processingJobs[id]
                   /\ disk'[id] = disk[id]
                \/ /\ timers[id] > 0
                   /\ timers'[id] = timers[id] - 1
                   /\ processingJobs'[id] = NoJob
                   /\ ~disk'[id].exists
          /\ timers'[id] > timers[id] =>
                /\ processingJobs[id].status = "completed"
                /\ resp'.op = "download"
                /\ resp'.jobId = id
                /\ resp'.code = 200]_vars


\* C23: while the registry holds a completed record for an id, temp/<id>
\* and converted.zip in it exist; a download that finds the record
\* completed has the archive to read, and what it sends with 200 is that
\* archive.
C23_CompletedHasArchive ==
    /\ [](\A id \in JobIds :
            processingJobs[id].status = "completed" =>
                disk[id].exists /\ disk[id].zipped)
    /\ [][\A id \in JobIds :
             (resp'.op = "download" /\ resp'.jobId = id /\ resp'.code # 404) =>
                 /\ disk[id].exists
                 /\ disk[id].zipped
                 /\ resp'.code = 200 => resp'.body = disk[id].zip]_vars

\* A completed job was downloaded twice; the first timer has fired and
\* removed the directory with the entry, the second is still pending, and
\* a later download of the id was answered 404.
C23_Witness ==
    \E id \in JobIds :
        /\ cleaned[id]
        /\ timers[id] > 0
        /\ removed[id] > 0
        /\ ~disk[id].exists
        /\ processingJobs[id] = NoJob
        /\ resp.op = "download"
        /\ resp.jobId = id
        /\ resp.code = 404

====
